---- MODULE Spec2Model ----
(***************************************************************************)
(* Model of InputManager (src/src/inputManager.ts): the single active      *)
(* prompt slot, the queue of pending prompts, the abort/timeout bridge     *)
(* attached by input(), and the lifecycle events and state-changed         *)
(* notifications it sends.  Every public call, timer callback and abort    *)
(* listener runs to completion, so each is one action.                     *)
(***************************************************************************)
EXTENDS Integers, Sequences, FiniteSets, TLC

\* ---------------------------------------------------------------- bounds
\* calls of input() that get past the not-initialized check
MaxRequests == 3
\* requests submitted with an abort signal and/or a timer
MaxBridged == 1
\* calls of init()
MaxInits == 1
\* calls of display() that get past the not-initialized check
MaxDisplays == 1
\* update() calls that are accepted, over all displays
MaxUpdates == 2

\* calls a listener makes into the manager from inside a notification
MaxReentrant == 2

\* ------------------------------------------------------------- constants
Ids == 1..MaxRequests
NoPrompt == 0
UnknownId == MaxRequests + 1
Null == "null"
Pending == "pending"
Values == {"v1"}
ResolveValues == Values \cup {Null}
\* options.timeoutMs: absent, or a number of milliseconds
Undefined == -1
TimeoutChoices == {Undefined, 0, 10}
\* options.abortSignal: absent, or a signal that has not fired yet
SignalChoices == {"none", "fresh"}
\* options.priority: absent, or one of the numbers the tests and examples use
PriorityChoices == {1, 5, 10}
InputOptions ==
  [abortSignal : SignalChoices, timeoutMs : TimeoutChoices, priority : {Undefined}]
\* requests that give a priority (and no abort signal and no timeout)
PrioOptions ==
  [abortSignal : {"none"}, timeoutMs : {Undefined}, priority : PriorityChoices]
\* the configurations init() is called with: one with a default renderer that
\* is in the renderers map, one without a default renderer; onMissingRenderer
\* is left out, which handleMissingRenderer reads as 'resolve-null'
InputConfigs ==
  { [defaultRenderer |-> "default", renderers |-> {"default"}, onMissingRenderer |-> "undefined"],
    [defaultRenderer |-> "", renderers |-> {"default"}, onMissingRenderer |-> "undefined"] }
\* the configurations of the init tests: the two above and one whose default
\* renderer is not in its renderers map
InitConfigs ==
  InputConfigs \cup
    { [defaultRenderer |-> "missing", renderers |-> {}, onMissingRenderer |-> "undefined"] }
NullConfig == [initialized |-> FALSE, renderers |-> {}, onMissingRenderer |-> "undefined"]
\* MissingRendererPolicy, and the configurations that name one explicitly
MissingRendererPolicy == {"throw", "reject", "resolve-null"}
PolicyConfigs ==
  { [defaultRenderer |-> "default", renderers |-> {"default"}, onMissingRenderer |-> p] :
      p \in MissingRendererPolicy }
\* the outcome of a promise that was rejected; input() creates its promise
\* with a resolve function only
Rejected == "rejected"

\* listeners: one that only observes, and those that call back when they see
\* an event of one type or a state-changed notification
NoListener == [on |-> "never", call |-> "none"]
Listeners ==
  [on : {"prompt:shown", "prompt:resolved", "prompt:canceled", "notify"},
   call : {"input", "resolvePrompt"}]

\* display channels: ids, the values update() is called with (JavaScript's
\* undefined among them), and options.initialValue (absent, or a value)
\* the test of several active displays starts two
MultipleDisplays == 2
DisplayIds ==
  1..(IF MaxDisplays > MultipleDisplays THEN MaxDisplays ELSE MultipleDisplays)
UndefinedValue == "undefined"
UpdateValues == {"a", "b", UndefinedValue}
InitialValues == {UndefinedValue, "i"}
DisplayOptions == [initialValue : InitialValues, priority : {Undefined}]
\* Symbol.for('cancelled'), and an awaited promise that is not settled yet
CancelledSymbol == "Symbol(cancelled)"
Unsettled == "unsettled"
\* DisplayState before display() has created it
NoDisplayState ==
  [values |-> <<>>, subscribers |-> {}, isCancelled |-> FALSE,
   currentValue |-> UndefinedValue, priority |-> Undefined]

VARIABLES
  config,         \* this.config (NullConfig models null)
  queue,          \* this.queue: sequence of prompt ids
  currentPrompt,  \* this.currentPrompt: a prompt id or NoPrompt
  nextId,         \* the next id uuid() hands out
  inits,          \* how often init() has been called
  priority,       \* per request, its options.priority as kept in the prompt
  signal,         \* per request, the state of its AbortSignal
  listener,       \* per request, whether onAbort is registered on the signal
  timer,          \* per request, the state of its setTimeout timer
  settleCount,    \* per request, how often the promise's resolve was invoked
  result,         \* per request, the value its promise settled with
  events,         \* every InputEvents record emitted so far, in order
  notes,          \* snapshots taken by state-changed listeners in the last call
  console,        \* console.warn / console.error output of the last call
  lastOp,         \* the last call made on the manager
  activeDisplays, \* this.activeDisplays: the ids of the registered displays
  displayState,   \* per display, its DisplayState object
  nextDisplay,    \* the next display id uuid() hands out
  generator,      \* per display, where its async generator stands
  awaited,        \* per display, what the promise the generator awaits holds
  sent,           \* per display, the initial value and the accepted updates
  got,            \* per display, the values its generator has yielded
  prioritizeAwaitingInputs,  \* the priority mode the presentation layer set
  suspended,      \* the displays suspended for an interactive request
  listens,        \* what the subscribed listener does when it is called
  reentered       \* how many calls the listener has made into the manager

vars == <<config, queue, currentPrompt, nextId, inits, priority, signal, listener,
          timer, settleCount, result, events, notes, console, lastOp,
          activeDisplays, displayState, nextDisplay, generator, awaited, sent, got,
          prioritizeAwaitingInputs, suspended, listens, reentered>>

displayVars == <<activeDisplays, displayState, nextDisplay, generator, awaited,
                 sent, got>>
preemptVars == <<prioritizeAwaitingInputs, suspended>>
requestVars == <<queue, currentPrompt, nextId, priority, signal, listener, timer,
                 settleCount, result, reentered>>

\* ------------------------------------------------- the manager as a record
\* The handlers are sequential code; each helper maps the manager's fields
\* before a statement to the fields after it.  Listeners do not throw, so
\* try/finally runs as plain sequence; a listener that calls back into the
\* manager does so inside emit and notify (see 'called').
Manager == [queue |-> queue, currentPrompt |-> currentPrompt,
            listener |-> listener, timer |-> timer,
            settleCount |-> settleCount, result |-> result,
            events |-> events, notes |-> <<>>, console |-> <<>>,
            activeDisplays |-> activeDisplays, displayState |-> displayState,
            generator |-> generator, awaited |-> awaited,
            sent |-> sent, got |-> got,
            nextId |-> nextId, listens |-> listens, reentered |-> reentered]

Store(m) ==
  /\ queue' = m.queue
  /\ currentPrompt' = m.currentPrompt
  /\ listener' = m.listener
  /\ timer' = m.timer
  /\ settleCount' = m.settleCount
  /\ result' = m.result
  /\ events' = m.events
  /\ notes' = m.notes
  /\ console' = m.console
  /\ activeDisplays' = m.activeDisplays
  /\ displayState' = m.displayState
  /\ generator' = m.generator
  /\ awaited' = m.awaited
  /\ sent' = m.sent
  /\ got' = m.got
  /\ nextId' = m.nextId
  /\ reentered' = m.reentered

Shown(id) == [type |-> "prompt:shown", id |-> id, reason |-> "-"]
Resolved(id) == [type |-> "prompt:resolved", id |-> id, reason |-> "-"]
Canceled(id, reason) == [type |-> "prompt:canceled", id |-> id, reason |-> reason]

\* F applied to the value of v: the statements of a handler run one after the
\* other, each on the state the one before it left, so v is computed once.
After(v, F(_)) == CHOOSE r \in {F(x) : x \in {v}} : TRUE

\* The subscribed listener (subscribe / subscribeEvents): it is called with
\* every event and every state-changed notification, and may call input()
\* or resolvePrompt() on the manager from inside the call.
RECURSIVE called(_, _, _)

emit(m, evt) ==
  After(m, LAMBDA x :
    called([x EXCEPT !.events = Append(@, evt)], evt.type, evt.id))

\* what a state-changed listener reads when it is called: getCurrentPrompt(),
\* getQueueLength() and getActiveDisplays() with each display's currentValue
Snapshot(current, q, active, state) ==
  [current |-> current, queueLength |-> Len(q),
   displays |-> [d \in active |-> state[d].currentValue]]

notify(m) ==
  After(m, LAMBDA x :
    called([x EXCEPT !.notes = Append(@, Snapshot(x.currentPrompt, x.queue,
                                                  x.activeDisplays,
                                                  x.displayState))],
           "notify", x.currentPrompt))

log(m, level) == [m EXCEPT !.console = Append(@, level)]

\* resolve of the Promise created in input(): only the first call settles it.
originalResolve(m, id, value) ==
  [m EXCEPT !.settleCount[id] = @ + 1,
            !.result[id] = IF @ = Pending THEN value ELSE @]

\* the cleanup array: removeEventListener and clearTimeout.  An entry exists
\* only for an option that was given; without it there is no listener and no
\* timer to begin with.
cleanup(m, id) ==
  [m EXCEPT !.listener[id] = FALSE,
            !.timer[id] = IF @ = "armed" THEN "cleared" ELSE @]

\* prompt.resolve as wrapped in input(): originalResolve, then cleanup
promptResolve(m, id, value) == cleanup(originalResolve(m, id, value), id)

\* processQueue that reads the head of the queue without removing it
processQueue_keepsHead(m) ==
  IF m.currentPrompt = NoPrompt /\ Len(m.queue) > 0
  THEN LET nextPrompt == Head(m.queue) IN
       notify(emit([m EXCEPT !.currentPrompt = nextPrompt], Shown(nextPrompt)))
  ELSE m

\* processQueue that promotes the head without checking that the slot is free
processQueue_noSlotCheck(m) ==
  IF Len(m.queue) > 0
  THEN LET nextPrompt == Head(m.queue) IN
       notify(emit([m EXCEPT !.currentPrompt = nextPrompt,
                             !.queue = Tail(m.queue)],
                   Shown(nextPrompt)))
  ELSE m

\* processQueue that notifies the listeners also when it has nothing to do
processQueue_notifiesAlways(m) ==
  IF m.currentPrompt = NoPrompt /\ Len(m.queue) > 0
  THEN LET nextPrompt == Head(m.queue) IN
       notify(emit([m EXCEPT !.currentPrompt = nextPrompt,
                             !.queue = Tail(m.queue)],
                   Shown(nextPrompt)))
  ELSE notify(m)

processQueue(m) ==
  IF m.currentPrompt = NoPrompt /\ Len(m.queue) > 0
  THEN LET nextPrompt == Head(m.queue) IN
       notify(emit([m EXCEPT !.currentPrompt = nextPrompt,
                             !.queue = Tail(m.queue)],
                   Shown(nextPrompt)))
  ELSE m

findIndex(q, id) ==
  IF \E i \in 1..Len(q) : q[i] = id
  THEN CHOOSE i \in 1..Len(q) : q[i] = id /\ \A j \in 1..(i - 1) : q[j] # id
  ELSE 0

splice(q, idx) == [i \in 1..(Len(q) - 1) |-> IF i < idx THEN q[i] ELSE q[i + 1]]

\* cancelPrompt whose queued branch emits no prompt:canceled
cancelPrompt_silentQueued(m, id, reason, directResolve) ==
  IF m.currentPrompt # NoPrompt /\ m.currentPrompt = id
  THEN processQueue(notify(emit(
         promptResolve([m EXCEPT !.currentPrompt = NoPrompt], id, Null),
         Canceled(id, reason))))
  ELSE LET idx == findIndex(m.queue, id) IN
       IF idx >= 1
       THEN LET m1 == [m EXCEPT !.queue = splice(m.queue, idx)]
                m2 == IF directResolve
                      THEN originalResolve(m1, id, Null)
                      ELSE promptResolve(m1, id, Null)
            IN notify(m2)
       ELSE m

\* cancelPrompt whose queued branch settles the request but leaves it queued
cancelPrompt_keepsQueued(m, id, reason, directResolve) ==
  IF m.currentPrompt # NoPrompt /\ m.currentPrompt = id
  THEN processQueue(notify(emit(
         promptResolve([m EXCEPT !.currentPrompt = NoPrompt], id, Null),
         Canceled(id, reason))))
  ELSE IF findIndex(m.queue, id) >= 1
       THEN notify(emit(IF directResolve THEN originalResolve(m, id, Null)
                        ELSE promptResolve(m, id, Null),
                        Canceled(id, reason)))
       ELSE m

\* cancelPrompt that, for an id that is neither current nor queued, cancels
\* whatever prompt is current instead of ignoring the call
cancelPrompt_staleHitsCurrent(m, id, reason, directResolve) ==
  LET cur == IF m.currentPrompt # NoPrompt /\ findIndex(m.queue, id) = 0
             THEN m.currentPrompt ELSE id
  IN IF m.currentPrompt # NoPrompt /\ m.currentPrompt = cur
     THEN processQueue(notify(emit(
            promptResolve([m EXCEPT !.currentPrompt = NoPrompt], cur, Null),
            Canceled(cur, reason))))
     ELSE LET idx == findIndex(m.queue, id) IN
          IF idx >= 1
          THEN LET m1 == [m EXCEPT !.queue = splice(m.queue, idx)]
                   m2 == IF directResolve
                         THEN originalResolve(m1, id, Null)
                         ELSE promptResolve(m1, id, Null)
               IN notify(emit(m2, Canceled(id, reason)))
          ELSE m

\* cancelPrompt whose current branch does not run processQueue
cancelPrompt_noDrain(m, id, reason, directResolve) ==
  IF m.currentPrompt # NoPrompt /\ m.currentPrompt = id
  THEN notify(emit(
         promptResolve([m EXCEPT !.currentPrompt = NoPrompt], id, Null),
         Canceled(id, reason)))
  ELSE LET idx == findIndex(m.queue, id) IN
       IF idx >= 1
       THEN LET m1 == [m EXCEPT !.queue = splice(m.queue, idx)]
                m2 == IF directResolve
                      THEN originalResolve(m1, id, Null)
                      ELSE promptResolve(m1, id, Null)
            IN notify(emit(m2, Canceled(id, reason)))
       ELSE m

\* cancelPrompt whose queued branch removes the last queued prompt (pop)
\* instead of the one found by findIndex
cancelPrompt_popsLast(m, id, reason, directResolve) ==
  IF m.currentPrompt # NoPrompt /\ m.currentPrompt = id
  THEN processQueue(notify(emit(
         promptResolve([m EXCEPT !.currentPrompt = NoPrompt], id, Null),
         Canceled(id, reason))))
  ELSE LET idx == findIndex(m.queue, id) IN
       IF idx >= 1
       THEN LET m1 == [m EXCEPT !.queue = splice(m.queue, Len(m.queue))]
                m2 == IF directResolve
                      THEN originalResolve(m1, id, Null)
                      ELSE promptResolve(m1, id, Null)
            IN notify(emit(m2, Canceled(id, reason)))
       ELSE m

cancelPrompt(m, id, reason, directResolve) ==
  IF m.currentPrompt # NoPrompt /\ m.currentPrompt = id
  THEN processQueue(notify(emit(
         promptResolve([m EXCEPT !.currentPrompt = NoPrompt], id, Null),
         Canceled(id, reason))))
  ELSE LET idx == findIndex(m.queue, id) IN
       IF idx >= 1
       THEN LET m1 == [m EXCEPT !.queue = splice(m.queue, idx)]
                m2 == IF directResolve
                      THEN originalResolve(m1, id, Null)
                      ELSE promptResolve(m1, id, Null)
            IN notify(emit(m2, Canceled(id, reason)))
       ELSE m

\* resolvePrompt that emits prompt:resolved in its finally block, after the
\* queue has been drained
resolvePrompt_emitsLast(m, id, value) ==
  IF m.currentPrompt = NoPrompt THEN m
  ELSE IF m.currentPrompt # id THEN log(m, "warn")
  ELSE emit(processQueue(notify(
         promptResolve([m EXCEPT !.currentPrompt = NoPrompt], id, value))),
         Resolved(id))

\* resolvePrompt that clears the active slot only after resolve and emit
resolvePrompt_clearsLate(m, id, value) ==
  IF m.currentPrompt = NoPrompt THEN m
  ELSE IF m.currentPrompt # id THEN log(m, "warn")
  ELSE LET m1 == emit(promptResolve(m, id, value), Resolved(id))
       IN processQueue(notify([m1 EXCEPT !.currentPrompt = NoPrompt]))

\* resolvePrompt that settles the current prompt but never drains the queue
resolvePrompt_noDrain(m, id, value) ==
  IF m.currentPrompt = NoPrompt THEN m
  ELSE IF m.currentPrompt # id THEN log(m, "warn")
  ELSE notify(emit(
         promptResolve([m EXCEPT !.currentPrompt = NoPrompt], id, value),
         Resolved(id)))

\* resolvePrompt that calls resolve() without passing the value on
resolvePrompt_dropsValue(m, id, value) ==
  IF m.currentPrompt = NoPrompt THEN m
  ELSE IF m.currentPrompt # id THEN log(m, "warn")
  ELSE processQueue(notify(emit(
         promptResolve([m EXCEPT !.currentPrompt = NoPrompt], id, Null),
         Resolved(id))))

\* resolvePrompt without the comparison of id with the current prompt's id
resolvePrompt_noIdCheck(m, id, value) ==
  IF m.currentPrompt = NoPrompt THEN m
  ELSE LET cur == m.currentPrompt IN
       processQueue(notify(emit(
         promptResolve([m EXCEPT !.currentPrompt = NoPrompt], cur, value),
         Resolved(cur))))

\* resolvePrompt that reports a null value as a manual cancellation
resolvePrompt_nullCancels(m, id, value) ==
  IF m.currentPrompt = NoPrompt THEN m
  ELSE IF m.currentPrompt # id THEN log(m, "warn")
  ELSE processQueue(notify(emit(
         promptResolve([m EXCEPT !.currentPrompt = NoPrompt], id, value),
         IF value = Null THEN Canceled(id, "manual") ELSE Resolved(id))))

\* resolvePrompt whose finally block drains the queue before it notifies
resolvePrompt_drainsFirst(m, id, value) ==
  IF m.currentPrompt = NoPrompt THEN m
  ELSE IF m.currentPrompt # id THEN log(m, "warn")
  ELSE notify(processQueue(emit(
         promptResolve([m EXCEPT !.currentPrompt = NoPrompt], id, value),
         Resolved(id))))

resolvePrompt(m, id, value) ==
  IF m.currentPrompt = NoPrompt THEN m
  ELSE IF m.currentPrompt # id THEN log(m, "warn")
  ELSE processQueue(notify(emit(
         promptResolve([m EXCEPT !.currentPrompt = NoPrompt], id, value),
         Resolved(id))))

\* handleMissingRenderer that, under the policy 'throw', raises the error
\* after printing it and so never reaches cancelPrompt
handleMissingRenderer_throwSkipsCancel(m, cfg) ==
  IF ~cfg.initialized \/ m.currentPrompt = NoPrompt THEN m
  ELSE LET policy == IF cfg.onMissingRenderer = "undefined"
                     THEN "resolve-null" ELSE cfg.onMissingRenderer
           id == m.currentPrompt
       IN IF policy = "throw"
          THEN log(m, "error")
          ELSE IF policy \in {"reject", "resolve-null"}
          THEN cancelPrompt(m, id, "missing-renderer", FALSE)
          ELSE m

\* handleMissingRenderer that, under the policy 'reject', rejects the promise
\* of the current prompt instead of resolving it with null
handleMissingRenderer_rejects(m, cfg) ==
  IF ~cfg.initialized \/ m.currentPrompt = NoPrompt THEN m
  ELSE LET policy == IF cfg.onMissingRenderer = "undefined"
                     THEN "resolve-null" ELSE cfg.onMissingRenderer
           id == m.currentPrompt
       IN IF policy = "throw"
          THEN cancelPrompt(log(m, "error"), id, "missing-renderer", FALSE)
          ELSE IF policy = "reject"
          THEN processQueue(notify(emit(
                 cleanup([m EXCEPT !.currentPrompt = NoPrompt,
                                   !.settleCount[id] = @ + 1,
                                   !.result[id] = Rejected], id),
                 Canceled(id, "missing-renderer"))))
          ELSE IF policy = "resolve-null"
          THEN cancelPrompt(m, id, "missing-renderer", FALSE)
          ELSE m

handleMissingRenderer(m, cfg) ==
  IF ~cfg.initialized \/ m.currentPrompt = NoPrompt THEN m
  ELSE LET policy == IF cfg.onMissingRenderer = "undefined"
                     THEN "resolve-null" ELSE cfg.onMissingRenderer
           id == m.currentPrompt
       IN IF policy = "throw"
          THEN cancelPrompt(log(m, "error"), id, "missing-renderer", FALSE)
          ELSE IF policy \in {"reject", "resolve-null"}
          THEN cancelPrompt(m, id, "missing-renderer", FALSE)
          ELSE m

\* input that notifies the state-changed listeners before it enqueues
input_notifiesFirst(m, id, options) ==
  LET m1 == IF options.abortSignal # "none"
            THEN [m EXCEPT !.listener[id] = TRUE] ELSE m
      m2 == IF options.timeoutMs # Undefined /\ options.timeoutMs > 0
            THEN [m1 EXCEPT !.timer[id] = "armed"] ELSE m1
  IN processQueue([notify(m2) EXCEPT !.queue = Append(@, id)])

\* input that puts the new prompt at the front of the queue (unshift for push)
input_unshift(m, id, options) ==
  LET m1 == IF options.abortSignal # "none"
            THEN [m EXCEPT !.listener[id] = TRUE] ELSE m
      m2 == IF options.timeoutMs # Undefined /\ options.timeoutMs > 0
            THEN [m1 EXCEPT !.timer[id] = "armed"] ELSE m1
  IN notify(processQueue([m2 EXCEPT !.queue = <<id>> \o @]))

\* input that lets a request with a higher priority than the current prompt
\* take the active slot, putting the displaced prompt back at the head
input_preempts(m, id, options) ==
  LET m1 == IF options.abortSignal # "none"
            THEN [m EXCEPT !.listener[id] = TRUE] ELSE m
      m2 == IF options.timeoutMs # Undefined /\ options.timeoutMs > 0
            THEN [m1 EXCEPT !.timer[id] = "armed"] ELSE m1
  IN IF /\ m.currentPrompt # NoPrompt
        /\ options.priority # Undefined
        /\ options.priority > priority[m.currentPrompt]
     THEN notify(notify(emit([m2 EXCEPT !.queue = <<m.currentPrompt>> \o @,
                                        !.currentPrompt = id],
                             Shown(id))))
     ELSE notify(processQueue([m2 EXCEPT !.queue = Append(@, id)]))

\* input that leaves the new prompt in the queue while a display is active
input_waitsForDisplays(m, id, options) ==
  LET m1 == IF options.abortSignal # "none"
            THEN [m EXCEPT !.listener[id] = TRUE] ELSE m
      m2 == IF options.timeoutMs # Undefined /\ options.timeoutMs > 0
            THEN [m1 EXCEPT !.timer[id] = "armed"] ELSE m1
      m3 == [m2 EXCEPT !.queue = Append(@, id)]
  IN notify(IF m.activeDisplays # {} THEN m3 ELSE processQueue(m3))

\* input that pushes the new prompt without running processQueue
input_noDrain(m, id, options) ==
  LET m1 == IF options.abortSignal # "none"
            THEN [m EXCEPT !.listener[id] = TRUE] ELSE m
      m2 == IF options.timeoutMs # Undefined /\ options.timeoutMs > 0
            THEN [m1 EXCEPT !.timer[id] = "armed"] ELSE m1
  IN notify([m2 EXCEPT !.queue = Append(@, id)])

\* input that cancels the request at once when its signal is already aborted
input_checksAborted(m, id, options) ==
  LET m1 == IF options.abortSignal # "none"
            THEN [m EXCEPT !.listener[id] = TRUE] ELSE m
      m2 == IF options.timeoutMs # Undefined /\ options.timeoutMs > 0
            THEN [m1 EXCEPT !.timer[id] = "armed"] ELSE m1
  IN IF options.abortSignal = "aborted"
     THEN notify(emit(promptResolve(m2, id, Null), Canceled(id, "abort")))
     ELSE notify(processQueue([m2 EXCEPT !.queue = Append(@, id)]))

input(m, id, options) ==
  LET m1 == IF options.abortSignal # "none"
            THEN [m EXCEPT !.listener[id] = TRUE] ELSE m
      m2 == IF options.timeoutMs # Undefined /\ options.timeoutMs > 0
            THEN [m1 EXCEPT !.timer[id] = "armed"] ELSE m1
  IN notify(processQueue([m2 EXCEPT !.queue = Append(@, id)]))

\* The listener's code.  A listener that reacts to 'on' (an event type, or
\* "notify") calls input() with plain options, or resolvePrompt() with the id
\* of the event (on a notification: of the current prompt), at most
\* MaxReentrant times in all.
called(m, on, id) ==
  IF m.listens.on # on \/ m.reentered >= MaxReentrant THEN m
  ELSE IF m.listens.call = "input"
  THEN IF m.nextId > MaxRequests THEN m
       ELSE input([m EXCEPT !.reentered = @ + 1, !.nextId = @ + 1], m.nextId,
                  [abortSignal |-> "none", timeoutMs |-> Undefined,
                   priority |-> Undefined])
  ELSE resolvePrompt([m EXCEPT !.reentered = @ + 1], id, "v1")

\* ------------------------------------------------------ display channels
Started(d) == [type |-> "display:started", id |-> d, reason |-> "-"]
Updated(d, value) ==
  [type |-> "display:updated", id |-> d, reason |-> "-", value |-> value]
DisplayCanceled(d) == [type |-> "display:canceled", id |-> d, reason |-> "-"]

\* resolve of the promise the generator awaits: only the first call settles it
resolveAwaited(m, d, value) ==
  [m EXCEPT !.awaited[d] = IF @ = Unsettled THEN value ELSE @]

\* the callback ('unsubscribe') the awaiting generator put in state.subscribers
subscriber(m, d, value) ==
  resolveAwaited([m EXCEPT !.displayState[d].subscribers = {}], d, value)

display(m, d, options) ==
  LET st == [values |-> IF options.initialValue # UndefinedValue
                        THEN <<options.initialValue>> ELSE <<>>,
             subscribers |-> {},
             isCancelled |-> FALSE,
             currentValue |-> options.initialValue,
             priority |-> options.priority]
      m1 == [m EXCEPT !.displayState[d] = st,
                      !.activeDisplays = @ \cup {d},
                      !.generator[d] = "suspendedStart",
                      !.sent[d] = st.values]
  IN notify(emit(m1, Started(d)))

\* updateDisplay without the early return for a cancelled or unknown display
updateDisplay_afterCancel(m, d, value) ==
  LET m1 == [m EXCEPT !.displayState[d].currentValue = value,
                      !.sent[d] = Append(@, value)]
      m2 == IF m1.displayState[d].subscribers # {}
            THEN subscriber(m1, d, value)
            ELSE [m1 EXCEPT !.displayState[d].values = Append(@, value)]
  IN notify(emit(m2, Updated(d, value)))

\* updateDisplay that ignores the call while an interactive request is current
updateDisplay_whenIdle(m, d, value) ==
  IF \/ d \notin m.activeDisplays \/ m.displayState[d].isCancelled
     \/ m.currentPrompt # NoPrompt
  THEN m
  ELSE LET m1 == [m EXCEPT !.displayState[d].currentValue = value,
                           !.sent[d] = Append(@, value)]
           m2 == IF m1.displayState[d].subscribers # {}
                 THEN subscriber(m1, d, value)
                 ELSE [m1 EXCEPT !.displayState[d].values = Append(@, value)]
       IN notify(emit(m2, Updated(d, value)))

updateDisplay(m, d, value) ==
  IF d \notin m.activeDisplays \/ m.displayState[d].isCancelled THEN m
  ELSE LET m1 == [m EXCEPT !.displayState[d].currentValue = value,
                           !.sent[d] = Append(@, value)]
           m2 == IF m1.displayState[d].subscribers # {}
                 THEN subscriber(m1, d, value)
                 ELSE [m1 EXCEPT !.displayState[d].values = Append(@, value)]
       IN notify(emit(m2, Updated(d, value)))

\* cancelDisplay that empties the registry (clear() for delete(id))
cancelDisplay_clearsRegistry(m, d) ==
  IF d \notin m.activeDisplays THEN m
  ELSE LET m1 == [m EXCEPT !.displayState[d].isCancelled = TRUE]
           m2 == IF m1.displayState[d].subscribers # {}
                 THEN subscriber(m1, d, CancelledSymbol) ELSE m1
           m3 == [m2 EXCEPT !.displayState[d].subscribers = {},
                            !.activeDisplays = {}]
       IN notify(emit(m3, DisplayCanceled(d)))

\* cancelDisplay that clears state.subscribers without calling them
cancelDisplay_noWake(m, d) ==
  IF d \notin m.activeDisplays THEN m
  ELSE LET m1 == [m EXCEPT !.displayState[d].isCancelled = TRUE,
                           !.displayState[d].subscribers = {},
                           !.activeDisplays = @ \ {d}]
       IN notify(emit(m1, DisplayCanceled(d)))

\* cancelDisplay without the check that the display is still registered
cancelDisplay_noStateCheck(m, d) ==
  LET m1 == [m EXCEPT !.displayState[d].isCancelled = TRUE]
      m2 == IF m1.displayState[d].subscribers # {}
            THEN subscriber(m1, d, CancelledSymbol) ELSE m1
      m3 == [m2 EXCEPT !.displayState[d].subscribers = {},
                       !.activeDisplays = @ \ {d}]
  IN notify(emit(m3, DisplayCanceled(d)))

cancelDisplay(m, d) ==
  IF d \notin m.activeDisplays THEN m
  ELSE LET m1 == [m EXCEPT !.displayState[d].isCancelled = TRUE]
           m2 == IF m1.displayState[d].subscribers # {}
                 THEN subscriber(m1, d, CancelledSymbol) ELSE m1
           m3 == [m2 EXCEPT !.displayState[d].subscribers = {},
                            !.activeDisplays = @ \ {d}]
       IN notify(emit(m3, DisplayCanceled(d)))

\* a finally block that notifies but leaves the display in the registry
finally_keepsRegistered(m, d) ==
  notify([m EXCEPT !.generator[d] = "completed"])

\* createDisplayGenerator: the finally block, reached when the loop ends
finally(m, d) ==
  notify([m EXCEPT !.activeDisplays = @ \ {d}, !.generator[d] = "completed"])

\* 'yield value': the value reaches the consumer and the generator suspends
yield(m, d, value) ==
  [m EXCEPT !.got[d] = Append(@, value), !.generator[d] = "suspendedYield",
            !.awaited[d] = Unsettled]

\* the while loop from its condition up to the await: the executor of the
\* new promise runs at once and resolves it or subscribes
loop(m, d) ==
  LET st == m.displayState[d] IN
  IF st.isCancelled THEN finally(m, d)
  ELSE LET m0 == [m EXCEPT !.generator[d] = "awaiting", !.awaited[d] = Unsettled]
           m1 == [m0 EXCEPT !.displayState[d].values = Tail(@)]
       IN IF Len(st.values) > 0 /\ Head(st.values) # UndefinedValue
          THEN resolveAwaited(m1, d, Head(st.values))
          ELSE IF Len(st.values) > 0
          THEN [m1 EXCEPT !.displayState[d].subscribers = {"unsubscribe"}]
          ELSE [m0 EXCEPT !.displayState[d].subscribers = {"unsubscribe"}]

\* submitted.next() on a generator that is suspended: at its start it runs
\* the body from the top, at a yield it goes on with the loop
next(m, d) ==
  IF m.generator[d] = "suspendedStart" /\ Len(m.displayState[d].values) > 0
  THEN yield([m EXCEPT !.displayState[d].values = Tail(@)], d,
             Head(m.displayState[d].values))
  ELSE loop(m, d)

\* the continuation after 'await', run once the awaited promise is settled
afterAwait(m, d) ==
  IF m.awaited[d] = CancelledSymbol THEN finally(m, d)
  ELSE yield(m, d, m.awaited[d])

\* submitted.return(), which 'break' in a for-await loop calls: a generator
\* that has not started completes without running its body; one suspended at
\* a yield leaves the try block through finally
return(m, d) ==
  IF m.generator[d] = "suspendedStart"
  THEN [m EXCEPT !.generator[d] = "completed"]
  ELSE finally(m, d)

\* getActiveDisplays(): the prompts of the registered displays, here their ids
getActiveDisplays == activeDisplays

getQueueLength == Len(queue)

\* where a request is when a call reaches the manager
Where(id) ==
  IF currentPrompt # NoPrompt /\ currentPrompt = id THEN "current"
  ELSE IF \E i \in 1..Len(queue) : queue[i] = id THEN "queued"
  ELSE "none"

\* the request a call is for, as far as the manager still holds it
Found(id) == IF Where(id) = "none" THEN NoPrompt ELSE id

\* the record of a call: its kind, the request it found (for input, the request
\* it created), where it found it, and whether it threw
Op(op, id, threw) ==
  [op |-> op, id |-> IF op = "input" THEN id ELSE Found(id),
   where |-> Where(id), threw |-> threw]

\* the requests submitted so far that carry an abort signal or a timer
Bridged == {i \in Ids : signal[i] # "none" \/ timer[i] # "none"}
NeedsBridge(options) ==
  options.abortSignal # "none" \/ (options.timeoutMs # Undefined /\ options.timeoutMs > 0)

\* ----------------------------------------------------------------- Init
\* the field initialisers of the class
Constructed ==
  /\ queue = <<>>
  /\ currentPrompt = NoPrompt
  /\ nextId = 1
  /\ priority = [i \in Ids |-> Undefined]
  /\ signal = [i \in Ids |-> "none"]
  /\ listener = [i \in Ids |-> FALSE]
  /\ timer = [i \in Ids |-> "none"]
  /\ settleCount = [i \in Ids |-> 0]
  /\ result = [i \in Ids |-> Pending]
  /\ events = <<>>
  /\ notes = <<>>
  /\ console = <<>>
  /\ activeDisplays = {}
  /\ displayState = [d \in DisplayIds |-> NoDisplayState]
  /\ nextDisplay = 1
  /\ generator = [d \in DisplayIds |-> "none"]
  /\ awaited = [d \in DisplayIds |-> Unsettled]
  /\ sent = [d \in DisplayIds |-> <<>>]
  /\ got = [d \in DisplayIds |-> <<>>]
  /\ prioritizeAwaitingInputs = FALSE
  /\ suspended = {}
  /\ reentered = 0

Init ==
  /\ config = NullConfig
  /\ inits = 0
  /\ lastOp = [op |-> "new", id |-> NoPrompt, where |-> "none", threw |-> FALSE]
  /\ listens = NoListener
  /\ Constructed

\* a manager on which init() has been called once, with a default renderer
Initialized ==
  /\ config = [initialized |-> TRUE, renderers |-> {"default"},
               onMissingRenderer |-> "undefined"]
  /\ inits = 1
  /\ lastOp = [op |-> "init", id |-> NoPrompt, where |-> "none", threw |-> FALSE]
  /\ listens = NoListener
  /\ Constructed

\* an initialized manager to which a listener that calls back has subscribed
Subscribed ==
  /\ config = [initialized |-> TRUE, renderers |-> {"default"},
               onMissingRenderer |-> "undefined"]
  /\ inits = 1
  /\ lastOp = [op |-> "subscribe", id |-> NoPrompt, where |-> "none",
               threw |-> FALSE]
  /\ listens \in Listeners
  /\ Constructed

\* -------------------------------------------------------------- actions
\* init that stores the configuration before it checks the default renderer
InitConfig_storesFirst(cfg) ==
  /\ UNCHANGED <<preemptVars, listens>>
  /\ inits < MaxInits
  /\ inits' = inits + 1
  /\ config' = [initialized |-> TRUE, renderers |-> cfg.renderers,
                onMissingRenderer |-> cfg.onMissingRenderer]
  /\ console' = IF cfg.defaultRenderer = "" \/ cfg.defaultRenderer \in cfg.renderers
                THEN <<>> ELSE <<"warn">>
  /\ notes' = <<>>
  /\ lastOp' = Op("init", NoPrompt, cfg.defaultRenderer = "")
  /\ UNCHANGED <<queue, currentPrompt, nextId, priority, signal, listener, timer,
                 settleCount, result, events, reentered>>
  /\ UNCHANGED displayVars

\* init(config): throws without a defaultRenderer, warns when the default
\* renderer is not in the renderers map, then stores the configuration.
InitConfig(cfg) ==
  /\ UNCHANGED <<preemptVars, listens>>
  /\ inits < MaxInits
  /\ inits' = inits + 1
  /\ IF cfg.defaultRenderer = ""
     THEN /\ config' = config
          /\ console' = <<>>
     ELSE /\ config' = [initialized |-> TRUE, renderers |-> cfg.renderers,
                        onMissingRenderer |-> cfg.onMissingRenderer]
          /\ console' = IF cfg.defaultRenderer \in cfg.renderers
                        THEN <<>> ELSE <<"warn">>
  /\ notes' = <<>>
  /\ lastOp' = Op("init", NoPrompt, cfg.defaultRenderer = "")
  /\ UNCHANGED <<queue, currentPrompt, nextId, priority, signal, listener, timer,
                 settleCount, result, events, reentered>>
  /\ UNCHANGED displayVars

\* input() without the check that init() has been called
Input_noInitCheck(options) ==
  /\ UNCHANGED <<preemptVars, listens>>
  /\ nextId <= MaxRequests
  /\ NeedsBridge(options) => Cardinality(Bridged) < MaxBridged
  /\ Store(input([Manager EXCEPT !.nextId = @ + 1], nextId, options))
  /\ priority' = [priority EXCEPT ![nextId] = options.priority]
  /\ signal' = [signal EXCEPT ![nextId] = options.abortSignal]
  /\ lastOp' = Op("input", nextId, FALSE)
  /\ UNCHANGED <<config, inits, nextDisplay>>

\* input(options): throws before init; otherwise a new prompt with a fresh id.
Input(options) ==
  /\ UNCHANGED <<preemptVars, listens>>
  /\ nextId <= MaxRequests
  /\ NeedsBridge(options) => Cardinality(Bridged) < MaxBridged
  /\ IF ~config.initialized
     THEN /\ console' = <<>>
          /\ notes' = <<>>
          /\ lastOp' = Op("input", NoPrompt, TRUE)
          /\ UNCHANGED <<queue, currentPrompt, nextId, priority, signal, listener,
                         timer, settleCount, result, events, reentered>>
          /\ UNCHANGED displayVars
     ELSE /\ Store(input([Manager EXCEPT !.nextId = @ + 1], nextId, options))
          /\ priority' = [priority EXCEPT ![nextId] = options.priority]
          /\ signal' = [signal EXCEPT ![nextId] = options.abortSignal]
          /\ lastOp' = Op("input", nextId, FALSE)
  /\ UNCHANGED <<config, inits, nextDisplay>>

\* resolvePrompt(id, value), called by the presentation layer or anyone else
ResolvePrompt(id, value) ==
  /\ UNCHANGED <<preemptVars, listens>>
  /\ Store(resolvePrompt(Manager, id, value))
  /\ lastOp' = Op("resolvePrompt", id, FALSE)
  /\ UNCHANGED <<config, inits, priority, signal, nextDisplay>>

\* onCancel of the renderer PromptInputRenderer shows for the prompt id:
\* submit(id)(null)
OnCancel(id) == ResolvePrompt(id, Null)

\* The request's AbortSignal fires 'abort' and the once-listener onAbort runs.
Abort(id) ==
  /\ UNCHANGED <<preemptVars, listens>>
  /\ signal[id] = "fresh"
  /\ listener[id]
  /\ signal' = [signal EXCEPT ![id] = "aborted"]
  /\ Store(cancelPrompt([Manager EXCEPT !.listener[id] = FALSE], id, "abort", TRUE))
  /\ lastOp' = Op("abort", id, FALSE)
  /\ UNCHANGED <<config, inits, priority, nextDisplay>>

\* The request's timer expires and its callback runs.
Timeout(id) ==
  /\ UNCHANGED <<preemptVars, listens>>
  /\ timer[id] = "armed"
  /\ Store(cancelPrompt([Manager EXCEPT !.timer[id] = "fired"], id, "timeout", TRUE))
  /\ lastOp' = Op("timeout", id, FALSE)
  /\ UNCHANGED <<config, inits, priority, signal, nextDisplay>>

HandleMissingRenderer ==
  /\ UNCHANGED <<preemptVars, listens>>
  /\ Store(handleMissingRenderer(Manager, config))
  /\ lastOp' = Op("handleMissingRenderer", currentPrompt, FALSE)
  /\ UNCHANGED <<config, inits, priority, signal, nextDisplay>>

\* display(options): throws before init; otherwise a new channel.
Display(options) ==
  /\ UNCHANGED <<preemptVars, listens>>
  /\ nextDisplay <= MaxDisplays
  /\ IF ~config.initialized
     THEN /\ console' = <<>>
          /\ notes' = <<>>
          /\ lastOp' = [op |-> "display", id |-> NoPrompt, where |-> "none",
                        threw |-> TRUE]
          /\ UNCHANGED <<events, displayVars, nextId, reentered>>
          /\ UNCHANGED <<queue, currentPrompt, listener, timer, settleCount, result>>
     ELSE /\ Store(display(Manager, nextDisplay, options))
          /\ nextDisplay' = nextDisplay + 1
          /\ lastOp' = [op |-> "display", id |-> nextDisplay, where |-> "none",
                        threw |-> FALSE]
  /\ UNCHANGED <<config, inits, priority, signal>>

\* handle.update(value)
Update(d, value) ==
  /\ UNCHANGED <<preemptVars, listens>>
  /\ d < nextDisplay
  /\ Cardinality({k \in 1..Len(events) : events[k].type = "display:updated"})
       < MaxUpdates
  /\ Store(updateDisplay(Manager, d, value))
  /\ lastOp' = [op |-> "update", id |-> d, where |-> "none", threw |-> FALSE]
  /\ UNCHANGED <<config, inits, priority, signal, nextDisplay>>

\* handle.cancel()
Cancel(d) ==
  /\ UNCHANGED <<preemptVars, listens>>
  /\ d < nextDisplay
  /\ Store(cancelDisplay(Manager, d))
  /\ lastOp' = [op |-> "cancel", id |-> d, where |-> "none", threw |-> FALSE]
  /\ UNCHANGED <<config, inits, priority, signal, nextDisplay>>

\* The consumer pulls: handle.submitted.next(), one pull at a time.
Pull(d) ==
  /\ UNCHANGED <<preemptVars, listens>>
  /\ generator[d] \in {"suspendedStart", "suspendedYield"}
  /\ Store(next(Manager, d))
  /\ lastOp' = [op |-> "next", id |-> d, where |-> "none", threw |-> FALSE]
  /\ UNCHANGED <<config, inits, priority, signal, nextDisplay>>

\* The microtask that resumes the generator after its await.
AfterAwait(d) ==
  /\ UNCHANGED <<preemptVars, listens>>
  /\ generator[d] = "awaiting"
  /\ awaited[d] # Unsettled
  /\ Store(afterAwait(Manager, d))
  /\ lastOp' = [op |-> "resume", id |-> d, where |-> "none", threw |-> FALSE]
  /\ UNCHANGED <<config, inits, priority, signal, nextDisplay>>

\* The consumer ends the iteration: handle.submitted.return(), between pulls.
Return(d) ==
  /\ UNCHANGED <<preemptVars, listens>>
  /\ generator[d] \in {"suspendedStart", "suspendedYield"}
  /\ Store(return(Manager, d))
  /\ lastOp' = [op |-> "return", id |-> d, where |-> "none", threw |-> FALSE]
  /\ UNCHANGED <<config, inits, priority, signal, nextDisplay>>

\* ------------------------------------------------------ priority mode
\* The priority mode PromptInputRenderer sets with setPrioritizeAwaitingInputs
\* is not part of inputManager.ts; it is modelled after sections 4.1 (drain,
\* step 3) and 4.3 of the specification, on top of input() and
\* resolvePrompt() above.
DefaultInputPriority == 10
DefaultDisplayPriority == 0
PreemptDisplayOptions ==
  [initialValue : {UndefinedValue}, priority : {Undefined, DefaultInputPriority}]

requestPriority(options) ==
  IF options.priority # Undefined THEN options.priority ELSE DefaultInputPriority

displayPriority(d) ==
  IF displayState[d].priority # Undefined
  THEN displayState[d].priority ELSE DefaultDisplayPriority

\* a submission that suspends no display
preempted_never(options) == {}

\* the visible displays an incoming request suspends: those of strictly lower
\* priority, when the mode is enabled
preempted(options) ==
  IF prioritizeAwaitingInputs
  THEN {d \in activeDisplays \ suspended :
          requestPriority(options) > displayPriority(d)}
  ELSE {}

\* a drain that resumes the suspended displays as soon as the mode is
\* enabled, without looking at the active slot and the queue
resumes_always(m) ==
  /\ prioritizeAwaitingInputs
  /\ suspended \cap m.activeDisplays # {}

\* drain, step 3: the slot is free, the queue is empty, the mode is enabled
\* and a display is suspended
resumes(m) ==
  /\ m.currentPrompt = NoPrompt /\ m.queue = <<>>
  /\ prioritizeAwaitingInputs
  /\ suspended \cap m.activeDisplays # {}

\* drain, step 3: mark the suspended displays active again and notify
drain(m) == IF resumes(m) THEN notify(m) ELSE m

\* the effect of PromptInputRenderer that passes its prop on runs when the
\* prop has changed
SetPrioritizeAwaitingInputs(flag) ==
  /\ flag # prioritizeAwaitingInputs
  /\ prioritizeAwaitingInputs' = flag
  /\ notes' = <<>>
  /\ console' = <<>>
  /\ lastOp' = [op |-> "setPrioritizeAwaitingInputs", id |-> NoPrompt,
                where |-> "none", threw |-> FALSE]
  /\ UNCHANGED <<config, inits, events, suspended, requestVars, displayVars,
                 listens>>

\* submit: input() preceded by the suspension of the displays it preempts
Submit(options) ==
  /\ nextId <= MaxRequests
  /\ IF ~config.initialized
     THEN /\ console' = <<>>
          /\ notes' = <<>>
          /\ lastOp' = Op("input", NoPrompt, TRUE)
          /\ UNCHANGED <<events, suspended, requestVars, displayVars>>
     ELSE /\ suspended' = suspended \cup preempted(options)
          /\ Store(input([Manager EXCEPT !.nextId = @ + 1], nextId, options))
          /\ priority' = [priority EXCEPT ![nextId] = options.priority]
          /\ lastOp' = Op("input", nextId, FALSE)
          /\ UNCHANGED <<signal, nextDisplay>>
  /\ UNCHANGED <<config, inits, prioritizeAwaitingInputs, listens>>

\* resolve: resolvePrompt() followed by step 3 of the drain
Resolve(id, value) ==
  /\ suspended' = IF resumes(resolvePrompt(Manager, id, value))
                  THEN {} ELSE suspended
  /\ Store(drain(resolvePrompt(Manager, id, value)))
  /\ lastOp' = Op("resolvePrompt", id, FALSE)
  /\ UNCHANGED <<config, inits, priority, signal, nextDisplay,
                 prioritizeAwaitingInputs, listens>>

Next ==
  \/ \E cfg \in InputConfigs : InitConfig(cfg)
  \/ \E options \in InputOptions : Input(options)
  \/ \E id \in (1..(nextId - 1)) \cup {UnknownId}, value \in ResolveValues :
       ResolvePrompt(id, value)
  \/ \E id \in Ids : Abort(id)
  \/ \E id \in Ids : Timeout(id)
  \/ HandleMissingRenderer

Spec == Init /\ [][Next]_vars

\* The presentation layer answers: whatever request is current is resolved.
\* This is the hypothesis of the no-deadlock claim, stated as fairness.
ResolveCurrent ==
  /\ currentPrompt # NoPrompt
  /\ \E value \in ResolveValues : ResolvePrompt(currentPrompt, value)

LiveSpec == Init /\ [][Next]_vars /\ WF_vars(ResolveCurrent)

\* The same calls on a manager whose configuration names its
\* onMissingRenderer policy.
PolicyNext ==
  \/ \E cfg \in PolicyConfigs : InitConfig(cfg)
  \/ \E options \in InputOptions : Input(options)
  \/ ResolveCurrent
  \/ \E id \in Ids : Abort(id)
  \/ \E id \in Ids : Timeout(id)
  \/ HandleMissingRenderer

PolicySpec == Init /\ [][PolicyNext]_vars

\* Requests submitted with a priority and answered by the presentation layer.
PrioNext ==
  \/ \E cfg \in InputConfigs : InitConfig(cfg)
  \/ \E options \in PrioOptions : Input(options)
  \/ \E id \in (1..(nextId - 1)) \cup {UnknownId}, value \in ResolveValues :
       ResolvePrompt(id, value)

PrioSpec == Init /\ [][PrioNext]_vars

\* One consumer per display channel, pulling from its sequence while the
\* producer updates and cancels.
StreamNext ==
  \/ \E options \in DisplayOptions : Display(options)
  \/ \E d \in DisplayIds, value \in UpdateValues : Update(d, value)
  \/ \E d \in DisplayIds : Cancel(d)
  \/ \E d \in DisplayIds : Pull(d)
  \/ \E d \in DisplayIds : AfterAwait(d)

StreamSpec == Initialized /\ [][StreamNext]_vars

\* The microtask queue runs: a generator whose awaited promise is settled is
\* resumed.
LiveStreamSpec ==
  StreamSpec /\ \A d \in DisplayIds : WF_vars(AfterAwait(d))

\* init() with each configuration of the init tests, followed by requests.
InitNext ==
  \/ \E cfg \in InitConfigs : InitConfig(cfg)
  \/ \E options \in InputOptions : Input(options)
  \/ ResolveCurrent

InitSpec == Init /\ [][InitNext]_vars

\* Every call that changes what the presentation layer shows: requests with
\* their bridges and a display channel on one initialized manager.  The
\* channel starts with an initial value and is updated with another one.
NotifyDisplayOptions == [initialValue : {"i"}, priority : {Undefined}]

NotifyNext ==
  \/ \E options \in InputOptions : Input(options)
  \/ ResolveCurrent
  \/ \E id \in Ids : Abort(id)
  \/ \E id \in Ids : Timeout(id)
  \/ HandleMissingRenderer
  \/ \E options \in NotifyDisplayOptions : Display(options)
  \/ \E d \in DisplayIds : Update(d, "a")
  \/ \E d \in DisplayIds : Cancel(d)

NotifySpec == Initialized /\ [][NotifyNext]_vars

\* A consumer that may stop iterating before the producer cancels.  The
\* channel starts with an initial value and is updated with two others.
IterationValues == {"a", "b"}

IterationNext ==
  \/ \E options \in NotifyDisplayOptions : Display(options)
  \/ \E d \in DisplayIds, value \in IterationValues : Update(d, value)
  \/ \E d \in DisplayIds : Cancel(d)
  \/ \E d \in DisplayIds : Pull(d)
  \/ \E d \in DisplayIds : AfterAwait(d)
  \/ \E d \in DisplayIds : Return(d)

IterationSpec == Initialized /\ [][IterationNext]_vars

\* The calls of Spec on a manager whose listener calls back into it.
ReentrantNext ==
  \/ \E options \in InputOptions : Input(options)
  \/ ResolveCurrent
  \/ \E id \in Ids : Abort(id)
  \/ \E id \in Ids : Timeout(id)
  \/ HandleMissingRenderer

ReentrantSpec == Subscribed /\ [][ReentrantNext]_vars

\* Several display channels at once: init(), then MultipleDisplays calls of
\* display(), each with or without an initial value; afterwards every channel
\* is updated, cancelled and pulled from on its own.
RECURSIVE displays(_, _, _)
displays(m, n, options) ==
  IF n = 0 THEN m
  ELSE display([displays(m, n - 1, options) EXCEPT !.notes = <<>>], n, options[n])

\* the manager's fields as Constructed gives them
NewManager ==
  [queue |-> <<>>, currentPrompt |-> NoPrompt,
   listener |-> [i \in Ids |-> FALSE], timer |-> [i \in Ids |-> "none"],
   settleCount |-> [i \in Ids |-> 0], result |-> [i \in Ids |-> Pending],
   events |-> <<>>, notes |-> <<>>, console |-> <<>>,
   activeDisplays |-> {},
   displayState |-> [d \in DisplayIds |-> NoDisplayState],
   generator |-> [d \in DisplayIds |-> "none"],
   awaited |-> [d \in DisplayIds |-> Unsettled],
   sent |-> [d \in DisplayIds |-> <<>>], got |-> [d \in DisplayIds |-> <<>>],
   nextId |-> 1, listens |-> NoListener, reentered |-> 0]

MultipleStarted ==
  \E options \in [1..MultipleDisplays -> DisplayOptions] :
    LET m == displays(NewManager, MultipleDisplays, options) IN
    /\ config = [initialized |-> TRUE, renderers |-> {"default"},
                 onMissingRenderer |-> "undefined"]
    /\ inits = 1
    /\ lastOp = [op |-> "display", id |-> MultipleDisplays, where |-> "none",
                 threw |-> FALSE]
    /\ queue = m.queue /\ currentPrompt = m.currentPrompt
    /\ nextId = 1
    /\ priority = [i \in Ids |-> Undefined]
    /\ signal = [i \in Ids |-> "none"]
    /\ listener = m.listener /\ timer = m.timer
    /\ settleCount = m.settleCount /\ result = m.result
    /\ events = m.events /\ notes = m.notes /\ console = m.console
    /\ activeDisplays = m.activeDisplays /\ displayState = m.displayState
    /\ nextDisplay = MultipleDisplays + 1
    /\ generator = m.generator /\ awaited = m.awaited
    /\ sent = m.sent /\ got = m.got
    /\ prioritizeAwaitingInputs = FALSE
    /\ suspended = {}
    /\ listens = NoListener
    /\ reentered = 0

RegistryNext ==
  \/ \E d \in DisplayIds, value \in UpdateValues : Update(d, value)
  \/ \E d \in DisplayIds : Cancel(d)
  \/ \E d \in DisplayIds : Pull(d)
  \/ \E d \in DisplayIds : AfterAwait(d)

RegistrySpec == MultipleStarted /\ [][RegistryNext]_vars

\* Interactive requests and display channels on the same manager.
PlainOptions ==
  [abortSignal : {"none"}, timeoutMs : {Undefined}, priority : {Undefined}]

DisplayNext ==
  \/ \E cfg \in InputConfigs : InitConfig(cfg)
  \/ \E options \in PlainOptions : Input(options)
  \/ ResolveCurrent
  \/ \E options \in DisplayOptions : Display(options)
  \/ \E d \in DisplayIds : Cancel(d)

DisplaySpec == Init /\ [][DisplayNext]_vars

\* The manager with the priority mode: displays are suspended for interactive
\* requests and resumed when the last of them has been answered.
PreemptNext ==
  \/ \E cfg \in InputConfigs : InitConfig(cfg)
  \/ \E flag \in BOOLEAN : SetPrioritizeAwaitingInputs(flag)
  \/ \E options \in PlainOptions : Submit(options)
  \/ currentPrompt # NoPrompt /\ Resolve(currentPrompt, "v1")
  \/ \E options \in PreemptDisplayOptions : Display(options)
  \/ \E d \in DisplayIds : Cancel(d)

PreemptSpec == Init /\ [][PreemptNext]_vars

\* A producer that keeps updating its display, and a consumer that pulls,
\* while interactive requests come and go in the priority mode.
ForegroundNext ==
  \/ \E flag \in BOOLEAN : SetPrioritizeAwaitingInputs(flag)
  \/ \E options \in PlainOptions : Submit(options)
  \/ currentPrompt # NoPrompt /\ Resolve(currentPrompt, "v1")
  \/ \E options \in PreemptDisplayOptions : Display(options)
  \/ \E d \in DisplayIds, value \in IterationValues : Update(d, value)
  \/ \E d \in DisplayIds : Pull(d)
  \/ \E d \in DisplayIds : AfterAwait(d)

ForegroundSpec == Initialized /\ [][ForegroundNext]_vars

\* The drain step on its own.  It is private and runs inside input(),
\* resolvePrompt() and cancelPrompt(), on the states those handlers have
\* produced when they call it: some requests settled, at most one current,
\* the others queued in submission order behind it.  The event log starts
\* with the drain step.
DrainPlaces == {"settled", "canceled", "current", "queued"}

DrainInputs ==
  UNION {{p \in [1..n -> DrainPlaces] :
            \A i \in 1..n :
              p[i] = "current" =>
                /\ \A j \in 1..n : p[j] = "current" => j = i
                /\ \A j \in 1..(i - 1) : p[j] # "queued"} : n \in 0..MaxRequests}

\* the ids of a set in ascending order
RECURSIVE Ascending(_)
Ascending(S) ==
  IF S = {} THEN <<>>
  ELSE LET lo == CHOOSE x \in S : \A y \in S : x <= y
       IN <<lo>> \o Ascending(S \ {lo})

DrainInit ==
  \E p \in DrainInputs :
    LET n == Len(p)
        At(place) == {i \in 1..n : p[i] = place}
    IN /\ config = [initialized |-> TRUE, renderers |-> {"default"},
                    onMissingRenderer |-> "undefined"]
       /\ inits = 1
       /\ lastOp = [op |-> "new", id |-> NoPrompt, where |-> "none",
                    threw |-> FALSE]
       /\ listens = NoListener
       /\ queue = Ascending(At("queued"))
       /\ currentPrompt = IF At("current") = {} THEN NoPrompt
                          ELSE CHOOSE i \in At("current") : TRUE
       /\ nextId = n + 1
       /\ priority = [i \in Ids |-> Undefined]
       /\ signal = [i \in Ids |-> "none"]
       /\ listener = [i \in Ids |-> FALSE]
       /\ timer = [i \in Ids |-> "none"]
       /\ settleCount =
            [i \in Ids |-> IF i \in At("settled") \cup At("canceled")
                           THEN 1 ELSE 0]
       /\ result = [i \in Ids |-> IF i \in At("settled") THEN "v1"
                                  ELSE IF i \in At("canceled") THEN Null
                                  ELSE Pending]
       /\ events = <<>>
       /\ notes = <<>>
       /\ console = <<>>
       /\ activeDisplays = {}
       /\ displayState = [d \in DisplayIds |-> NoDisplayState]
       /\ nextDisplay = 1
       /\ generator = [d \in DisplayIds |-> "none"]
       /\ awaited = [d \in DisplayIds |-> Unsettled]
       /\ sent = [d \in DisplayIds |-> <<>>]
       /\ got = [d \in DisplayIds |-> <<>>]
       /\ prioritizeAwaitingInputs = FALSE
       /\ suspended = {}
       /\ reentered = 0

\* one run of the drain step
ProcessQueue ==
  /\ UNCHANGED <<preemptVars, listens>>
  /\ Store(processQueue(Manager))
  /\ lastOp' = [op |-> "processQueue", id |-> currentPrompt', where |-> "none",
                threw |-> FALSE]
  /\ UNCHANGED <<config, inits, priority, signal, nextDisplay>>

DrainNext == ProcessQueue

DrainSpec == DrainInit /\ [][DrainNext]_vars

\* Requests whose abort signal has already fired when input() is called: the
\* 'abort' event was dispatched before the listener is added.
AbortedOptions ==
  [abortSignal : {"aborted"}, timeoutMs : TimeoutChoices, priority : {Undefined}]

AbortedNext ==
  \/ \E options \in InputOptions \cup AbortedOptions : Input(options)
  \/ ResolveCurrent
  \/ \E id \in Ids : Abort(id)
  \/ \E id \in Ids : Timeout(id)
  \/ HandleMissingRenderer

AbortedSpec == Initialized /\ [][AbortedNext]_vars

\* ------------------------------------------------------ reading the state
InQueue(id) == \E i \in 1..Len(queue) : queue[i] = id
Submitted(id) == id < nextId
Settled(id) == result[id] # Pending
Terminal == {"prompt:resolved", "prompt:canceled"}
Positions(type, id) ==
  {k \in 1..Len(events) : events[k].type = type /\ events[k].id = id}
HasShown(id) == Positions("prompt:shown", id) # {}
HasCanceled(id) == Positions("prompt:canceled", id) # {}
ShownPos(id) == CHOOSE k \in Positions("prompt:shown", id) : TRUE
Without(q, id) == SelectSeq(q, LAMBDA x : x # id)
Promoted(q) == IF Len(q) > 0 THEN Head(q) ELSE NoPrompt
Rest(q) == IF Len(q) > 0 THEN Tail(q) ELSE q
\* the step records a call, of one of the kinds ops, for the request id; every
\* action sets lastOp, so this holds of each step of those actions
IsCall(id, ops) ==
  /\ lastOp'.op \in ops
  /\ lastOp'.where = Where(id)
  /\ lastOp'.id = Found(id)

\* ------------------------------------------------------------------ C1
\* C1: the promise resolve captured at submission is invoked at most once per
\* request, and a request whose resolve has been invoked is neither the
\* current prompt nor in the queue, in every reachable state (so no later
\* resolvePrompt, abort, timeout or handleMissingRenderer invokes it again).
C1_SettledAtMostOnce ==
  \A id \in Ids :
    /\ settleCount[id] <= 1
    /\ settleCount[id] >= 1 => (currentPrompt # id /\ ~InQueue(id))

\* a request was cancelled while queued by its abort signal and its timer
\* fired afterwards, finding it neither current nor queued: one invocation
C1_Witness ==
  \E id \in Ids :
    /\ settleCount[id] = 1
    /\ HasCanceled(id) /\ ~HasShown(id)
    /\ timer[id] = "fired" /\ signal[id] = "aborted"
    /\ lastOp.op = "timeout" /\ lastOp.where = "none"

\* ------------------------------------------------------------------ C2
\* C2: at most one request is shown and not yet settled; in the event log a
\* prompt:shown is never emitted while a request shown earlier still lacks
\* its prompt:resolved or prompt:canceled.
C2_OneShownUnsettled ==
  /\ Cardinality({id \in Ids : HasShown(id) /\ ~Settled(id)}) <= 1
  /\ \A k \in 1..Len(events) :
       events[k].type = "prompt:shown" =>
         \A j \in 1..(k - 1) :
           events[j].type = "prompt:shown" =>
             \E t \in (j + 1)..(k - 1) :
               events[t].id = events[j].id /\ events[t].type \in Terminal

\* the first request was shown and resolved, the second was shown in its
\* place and is still unsettled, and a third one waits in the queue
C2_Witness ==
  /\ Len(events) >= 3
  /\ events[1] = Shown(1) /\ events[2] = Resolved(1) /\ events[3] = Shown(2)
  /\ currentPrompt = 2 /\ ~Settled(2)
  /\ queue = <<3>>

\* ------------------------------------------------------------------ C3
\* C3: no deadlock.  When whatever request is current keeps being answered
\* (LiveSpec), every submitted request eventually settles and is then
\* neither queued nor current: none stays in the queue forever and none
\* occupies the active slot forever.
C3_EverySubmittedSettles ==
  \A id \in Ids :
    Submitted(id) ~> (Settled(id) /\ currentPrompt # id /\ ~InQueue(id))

\* three requests were submitted back to back, the last two waited in the
\* queue, and all have settled with the slot and the queue empty again
C3_Witness ==
  /\ \A id \in Ids : Settled(id) /\ HasShown(id)
  /\ Len(events) = 2 * MaxRequests
  /\ ShownPos(1) = 1 /\ events[2].id = 1 /\ events[3] = Shown(2)
  /\ currentPrompt = NoPrompt /\ queue = <<>>

\* ------------------------------------------------------------------ C4
\* C4: requests become current in submission order.  Ids are handed out in
\* submission order, and input() never reads options.priority, so for any two
\* requests a submitted before b: when b has a prompt:shown, either a's
\* prompt:shown is earlier in the log or a was cancelled while still queued.
C4_ShownInSubmissionOrder ==
  \A a \in Ids : \A b \in Ids :
    (a < b /\ HasShown(b)) =>
      \/ HasShown(a) /\ ShownPos(a) < ShownPos(b)
      \/ HasCanceled(a) /\ ~HasShown(a)

\* the second and third request waited in the queue together and were then
\* shown one after the other
C4_Witness ==
  /\ \A id \in Ids : HasShown(id)
  /\ ShownPos(1) < ShownPos(2) /\ ShownPos(2) < ShownPos(3)
  /\ ShownPos(2) > 1 /\ ShownPos(3) > ShownPos(2) + 1
  /\ lastOp.op = "resolvePrompt" /\ lastOp.id = 2 /\ lastOp.where = "current"
  /\ currentPrompt = 3

\* ------------------------------------------------------------------ C5
\* C5: resolvePrompt(id, v) called while the request id is current settles
\* exactly that request's promise, with v, and invokes no other promise's
\* resolve nor changes any other promise's value.
C5_ResolveSettlesThatPromise ==
  [][\A id \in Ids : \A v \in ResolveValues :
       (currentPrompt = id /\ IsCall(id, {"resolvePrompt"}) /\ ResolvePrompt(id, v)) =>
         /\ result'[id] = v
         /\ settleCount'[id] = settleCount[id] + 1
         /\ \A other \in Ids \ {id} :
              /\ result'[other] = result[other]
              /\ settleCount'[other] = settleCount[other]]_vars

\* three requests, each resolved when it became current, with the values
\* v1, null and v1 in that order
C5_Witness ==
  /\ result = [id \in Ids |-> IF id = 2 THEN Null ELSE "v1"]
  /\ \A id \in Ids : settleCount[id] = 1 /\ Positions("prompt:resolved", id) # {}
  /\ lastOp.op = "resolvePrompt" /\ lastOp.id = MaxRequests /\ lastOp.where = "current"

\* ------------------------------------------------------------------ C6
\* C6: the first of resolvePrompt, abort and timeout to reach a request
\* decides its outcome, and every later one for the same id is a no-op: the
\* settled value never changes, and a resolvePrompt, abort or timeout step for
\* an already settled id invokes no resolve, emits no event and leaves the
\* current prompt and the queue as they were (every step either leaves them
\* unchanged or is not such a call).
C6_LaterOneIsNoOp ==
  [][\A id \in Ids :
       Settled(id) =>
         /\ result'[id] = result[id]
         /\ \/ UNCHANGED <<currentPrompt, queue, settleCount, result, events>>
            \/ ~ /\ IsCall(id, {"resolvePrompt", "abort", "timeout"})
                 /\ \/ \E v \in ResolveValues : ResolvePrompt(id, v)
                    \/ Abort(id)
                    \/ Timeout(id)]_vars

\* a queued request was cancelled by its abort signal, another request
\* became current afterwards, and then the cancelled request's timer fired
C6_Witness ==
  \E id \in Ids :
    /\ lastOp.op = "timeout" /\ lastOp.where = "none"
    /\ timer[id] = "fired" /\ signal[id] = "aborted"
    /\ result[id] = Null /\ ~HasShown(id)
    /\ currentPrompt # NoPrompt /\ currentPrompt > id
    /\ ~Settled(currentPrompt)

\* ------------------------------------------------------------------ C7
\* C7: no settled request keeps an armed timer or a registered abort
\* listener: whichever path settles a request, current or queued, clears its
\* timer and unregisters its listener in that step.
C7_NoDanglingBridge ==
  \A id \in Ids :
    Settled(id) => (timer[id] # "armed" /\ ~listener[id])

\* ------------------------------------------------------------------ C8
\* C8: resolvePrompt(id, v) with an id that is not the current prompt's id
\* (a queued, a settled or an unknown id) changes nothing: the current
\* prompt, the queue, every promise (value and resolve count), the timers
\* and listeners stay as they were and no event and no notification is sent
\* (every step either changes none of them or is not such a call).
C8_StaleResolveChangesNothing ==
  [][\A id \in Ids \cup {UnknownId} :
       \/ /\ UNCHANGED <<currentPrompt, queue, settleCount, result, events,
                         listener, timer, signal>>
          /\ notes' = <<>>
       \/ ~ /\ id # currentPrompt
            /\ IsCall(id, {"resolvePrompt"})
            /\ \E v \in ResolveValues : ResolvePrompt(id, v)]_vars

\* resolvePrompt arrived with the id of a request that waits in the queue
\* behind an unsettled current prompt, and the diagnostic was printed
C8_Witness ==
  /\ lastOp.op = "resolvePrompt" /\ lastOp.where = "queued"
  /\ console = <<"warn">>
  /\ currentPrompt # NoPrompt /\ ~Settled(currentPrompt)
  /\ InQueue(lastOp.id) /\ ~Settled(lastOp.id)

\* ------------------------------------------------------------------ C9
\* C9: when the abort signal or the timer of the current request fires, its
\* promise settles with null, prompt:canceled with reason 'abort' or
\* 'timeout' is emitted, and in the same step the head of the queue (if any)
\* becomes the current prompt and is announced after the cancellation.
CancelsCurrent(id, reason) ==
  /\ result'[id] = Null
  /\ currentPrompt' = Promoted(queue)
  /\ queue' = Rest(queue)
  /\ events' = events \o <<Canceled(id, reason)>> \o
                 (IF Len(queue) > 0 THEN <<Shown(Head(queue))>> ELSE <<>>)

C9_CancelOfCurrentPromotesHead ==
  [][\A id \in Ids :
       currentPrompt = id =>
         /\ (IsCall(id, {"abort"}) /\ Abort(id)) => CancelsCurrent(id, "abort")
         /\ (IsCall(id, {"timeout"}) /\ Timeout(id)) => CancelsCurrent(id, "timeout")]_vars

\* the timer of the current request fired while another request was queued:
\* the first is cancelled with null and the queued one has become current
C9_Witness ==
  /\ lastOp.op = "timeout" /\ lastOp.where = "current"
  /\ result[lastOp.id] = Null
  /\ Len(events) >= 2
  /\ events[Len(events) - 1] = Canceled(lastOp.id, "timeout")
  /\ currentPrompt # NoPrompt /\ events[Len(events)] = Shown(currentPrompt)

\* ----------------------------------------------------------------- C10
\* C10: when the abort signal or the timer of a queued request fires, the
\* request leaves the queue and settles with null, prompt:canceled with the
\* matching reason is the only event emitted, the current prompt stays the
\* same and unsettled, and the other queued requests keep their order.
CancelsQueued(id, reason) ==
  /\ result'[id] = Null
  /\ queue' = Without(queue, id)
  /\ events' = Append(events, Canceled(id, reason))
  /\ currentPrompt' = currentPrompt
  /\ \A other \in Ids \ {id} :
       result'[other] = result[other] /\ settleCount'[other] = settleCount[other]

C11_MissingRendererAdvances ==
  [][\A id \in Ids :
       \/ /\ CancelsCurrent(id, "missing-renderer")
          /\ ~lastOp'.threw
          /\ currentPrompt' # id
          /\ console' = IF config.onMissingRenderer = "throw"
                        THEN <<"error">> ELSE <<>>
       \/ ~ /\ currentPrompt = id
            /\ config.initialized
            /\ config.onMissingRenderer \in MissingRendererPolicy
            /\ IsCall(id, {"handleMissingRenderer"})
            /\ HandleMissingRenderer]_vars

\* under the policy 'throw' the current request had no renderer while
\* another one was queued: the error was printed, the request settled with
\* null and the queued one is shown
C11_Witness ==
  /\ config.onMissingRenderer = "throw"
  /\ lastOp.op = "handleMissingRenderer" /\ lastOp.where = "current"
  /\ console = <<"error">>
  /\ result[lastOp.id] = Null
  /\ Len(events) >= 2
  /\ events[Len(events) - 1] = Canceled(lastOp.id, "missing-renderer")
  /\ currentPrompt # NoPrompt /\ events[Len(events)] = Shown(currentPrompt)

C13_QueueByDescendingPriority ==
  \A i \in 1..Len(queue) : \A j \in 1..Len(queue) :
    i < j =>
      \/ priority[queue[i]] > priority[queue[j]]
      \/ priority[queue[i]] = priority[queue[j]] /\ queue[i] < queue[j]

\* ----------------------------------------------------------------- C14
\* C14: a request that is current is never displaced: the active slot changes
\* its occupant only in a step that settles the occupant, and an input() call
\* made while a request is current leaves that request current and puts the
\* new request in the queue, whatever the priorities of the two are.
C14_CurrentNeverDisplaced ==
  [][currentPrompt # NoPrompt =>
       /\ currentPrompt' = currentPrompt \/ result'[currentPrompt] # Pending
       /\ \/ lastOp'.op # "input"
          \/ /\ currentPrompt' = currentPrompt
             /\ queue' = Append(queue, lastOp'.id)
             /\ result'[lastOp'.id] = Pending]_vars

\* a request of priority 10 was submitted while one of priority 1 was
\* current: the first is still current and unsettled, the new one is queued
C14_Witness ==
  /\ lastOp.op = "input" /\ ~lastOp.threw
  /\ currentPrompt # NoPrompt /\ currentPrompt # lastOp.id
  /\ priority[currentPrompt] = 1 /\ priority[lastOp.id] = 10
  /\ ~Settled(currentPrompt)
  /\ InQueue(lastOp.id)

\* ----------------------------------------------------------------- C15
\* a display is presented when it is registered, not suspended, and no
\* interactive request has the foreground
Presented(d) ==
  d \in activeDisplays /\ d \notin suspended /\ currentPrompt = NoPrompt

\* C15: with the priority mode enabled, an interactive request of strictly
\* greater priority (10 by default, against 0 for a display) submitted while
\* a display is presented suspends the display and is the current prompt
\* after the call; and when the current request is resolved with nothing
\* queued, every suspended display is presented again after the call.
C15_SuspendedThenRestored ==
  [][prioritizeAwaitingInputs =>
       /\ \A d \in DisplayIds : \A options \in PlainOptions :
            \/ (d \in suspended' /\ d \in activeDisplays'
                /\ currentPrompt' = lastOp'.id)
            \/ ~ /\ Presented(d)
                 /\ requestPriority(options) > displayPriority(d)
                 /\ Submit(options)
       /\ \A d \in DisplayIds :
            \/ (d \in activeDisplays' /\ d \notin suspended'
                /\ currentPrompt' = NoPrompt)
            \/ ~ /\ d \in suspended /\ d \in activeDisplays
                 /\ currentPrompt # NoPrompt /\ queue = <<>>
                 /\ Resolve(currentPrompt, "v1")]_vars

\* the display was presented, a request was submitted and suspended it, and
\* the request has been resolved: the display is presented again
C15_Witness ==
  /\ prioritizeAwaitingInputs
  /\ lastOp.op = "resolvePrompt" /\ lastOp.where = "current"
  /\ \E d \in DisplayIds :
       /\ Presented(d)
       /\ \E k \in 1..Len(events) :
            /\ events[k] = Started(d)
            /\ k < Len(events) - 1
            /\ events[Len(events) - 1] = Shown(lastOp.id)
            /\ events[Len(events)] = Resolved(lastOp.id)
  /\ Len(notes) = 2
  /\ \A k \in 1..2 : notes[k].current = NoPrompt /\ notes[k].queueLength = 0

\* ----------------------------------------------------------------- C16
\* C16: with the priority mode enabled, a suspended display stays suspended
\* in every step that leaves an interactive request current or queued; a
\* step resumes it only into a state where the active slot and the queue are
\* both empty.
C16_ResumedOnlyWhenIdle ==
  [][\A d \in DisplayIds :
       (/\ prioritizeAwaitingInputs
        /\ d \in suspended /\ d \in activeDisplays /\ d \in activeDisplays'
        /\ (currentPrompt' # NoPrompt \/ queue' # <<>>))
       => d \in suspended']_vars

\* two requests were submitted over a suspended display; the first has been
\* resolved, the second is current, and the display is still suspended
C16_Witness ==
  /\ prioritizeAwaitingInputs
  /\ lastOp.op = "resolvePrompt" /\ lastOp.where = "current"
  /\ currentPrompt # NoPrompt /\ currentPrompt # lastOp.id
  /\ \E d \in DisplayIds : d \in suspended /\ d \in activeDisplays

C18_WaitsWhileDisplayActive ==
  [][(/\ lastOp'.op = "input" /\ ~lastOp'.threw
      /\ activeDisplays # {})
     => currentPrompt' # lastOp'.id]_vars

\* ----------------------------------------------------------------- C19
\* C19: as long as cancel() has not been called on a display channel, the
\* values its consumer has obtained, followed by the value a resolved pull is
\* about to yield and by the buffered values, are exactly the initial value
\* (when given) and the values passed to update(), in call order: none is
\* lost, duplicated or reordered, whether it was buffered or handed directly
\* to a waiting pull.
InFlight(d) ==
  IF generator[d] = "awaiting" /\ awaited[d] # Unsettled
  THEN <<awaited[d]>> ELSE <<>>

C19_DeliveredInCallOrder ==
  \A d \in DisplayIds :
    ~displayState[d].isCancelled =>
      got[d] \o InFlight(d) \o displayState[d].values = sent[d]

\* ----------------------------------------------------------------- C20
\* C20: once cancel() has been called on a display channel no further value
\* is delivered: a pull made after the cancel yields nothing (the sequence of
\* obtained values stays as it was), also when an initial value or earlier
\* updates were still buffered at the cancel.
C20_NoValueAfterCancel ==
  [][\A d \in DisplayIds :
       \/ got'[d] = got[d]
       \/ ~ /\ displayState[d].isCancelled
            /\ lastOp'.op = "next" /\ lastOp'.id = d
            /\ Pull(d)]_vars


\* ----------------------------------------------------------------- C21
\* C21: a pull that waits for a value (its generator awaits an unsettled
\* promise) when cancel() is called on its display is woken by that call with
\* the cancellation symbol; from then on it obtains no value, and it
\* eventually completes (done), so it does not wait forever.
Woken(d) == generator[d] = "awaiting" /\ awaited[d] = CancelledSymbol

C21_WaitingPullEndsOnCancel ==
  /\ [][\A d \in DisplayIds :
          \/ Woken(d)' /\ got'[d] = got[d]
          \/ ~ /\ generator[d] = "awaiting" /\ awaited[d] = Unsettled
               /\ lastOp'.op = "cancel" /\ lastOp'.id = d
               /\ Cancel(d)]_vars
  /\ [][\A d \in DisplayIds :
          Woken(d) => /\ got'[d] = got[d]
                      /\ Woken(d)' \/ generator'[d] = "completed"]_vars
  /\ \A d \in DisplayIds : Woken(d) ~> (generator[d] = "completed")

\* a consumer obtained the initial value, pulled again and waited; cancel()
\* woke it and its sequence has ended with nothing more obtained
C21_Witness ==
  \E d \in DisplayIds :
    /\ lastOp.op = "resume" /\ lastOp.id = d
    /\ generator[d] = "completed" /\ awaited[d] = CancelledSymbol
    /\ displayState[d].isCancelled /\ d \notin activeDisplays
    /\ got[d] = <<"i">>

\* ----------------------------------------------------------------- C22
\* C22: update(value) on a display channel on which cancel() has been called
\* is a silent no-op: the call does not throw, the registry, every channel's
\* buffer, flag and waiting pull, and the values sent and obtained stay as
\* they were, no event is emitted and no state-changed notification is sent.
C22_UpdateAfterCancelIsNoOp ==
  [][\A d \in DisplayIds :
       \/ /\ UNCHANGED <<activeDisplays, displayState, generator, awaited,
                         sent, got, events>>
          /\ notes' = <<>>
          /\ ~lastOp'.threw
       \/ ~ /\ displayState[d].isCancelled
            /\ lastOp'.op = "update" /\ lastOp'.id = d
            /\ \E value \in UpdateValues : Update(d, value)]_vars

\* update() was called on a channel right after its cancel(): the
\* cancellation is still the last event and nothing was notified
C22_Witness ==
  \E d \in DisplayIds :
    /\ lastOp.op = "update" /\ lastOp.id = d
    /\ displayState[d].isCancelled /\ d \notin activeDisplays
    /\ events[Len(events)] = DisplayCanceled(d)
    /\ notes = <<>>
    /\ displayState[d].values = <<"i">>

C24_NotInitializedChangesNothing ==
  [][(~config.initialized /\ lastOp'.op \in {"input", "display"}) =>
       /\ lastOp'.threw
       /\ UNCHANGED <<config, queue, currentPrompt, nextId, signal, listener,
                      timer, settleCount, result, events>>
       /\ UNCHANGED displayVars
       /\ notes' = <<>>]_vars

\* init() was called without a default renderer and threw; the input() call
\* that followed threw as well and the manager is as it was constructed
C24_Witness ==
  /\ inits = 1 /\ ~config.initialized
  /\ lastOp.op = "input" /\ lastOp.threw
  /\ queue = <<>> /\ currentPrompt = NoPrompt /\ nextId = 1
  /\ activeDisplays = {} /\ nextDisplay = 1
  /\ events = <<>> /\ notes = <<>>

\* ----------------------------------------------------------------- C25
\* C25: init() without a default renderer throws and leaves the configuration
\* as it was, so that a manager without configuration stays without one and
\* its input() calls keep throwing; init() with a default renderer that is
\* not in the renderers map does not throw, prints one warning and leaves the
\* manager initialized; with a default renderer that is in the map it prints
\* nothing.
C25_InitFailsFastOrWarns ==
  [][/\ \A cfg \in InitConfigs :
          \/ ~InitConfig(cfg)
          \/ IF cfg.defaultRenderer = ""
             THEN lastOp'.threw /\ config' = config /\ console' = <<>>
             ELSE /\ ~lastOp'.threw
                  /\ config'.initialized /\ config'.renderers = cfg.renderers
                  /\ console' = IF cfg.defaultRenderer \in cfg.renderers
                                THEN <<>> ELSE <<"warn">>
     /\ (~config.initialized /\ lastOp'.op = "input") =>
          (lastOp'.threw /\ ~config'.initialized)]_vars

\* init() was called with a default renderer missing from the map: it
\* did not throw, one warning was printed and the manager is initialized
C25_Witness ==
  /\ lastOp.op = "init" /\ ~lastOp.threw
  /\ console = <<"warn">>
  /\ config.initialized /\ config.renderers = {}
  /\ inits = 1

\* ----------------------------------------------------------------- C26
\* C26: the lifecycle events of every request follow one protocol.  In every
\* reachable state a request has at most one prompt:shown; it has exactly one
\* terminal event (prompt:resolved or prompt:canceled) when it is settled and
\* none when it is not, so the terminal event is emitted by the call that
\* settles it; its prompt:shown, if any, comes before its terminal event; and
\* a request that is settled by a step that finds it in the queue ends up
\* with prompt:canceled and without prompt:shown.
TerminalPositions(id) ==
  Positions("prompt:resolved", id) \cup Positions("prompt:canceled", id)

C26_EventProtocol ==
  /\ [](\A id \in Ids :
          /\ Cardinality(Positions("prompt:shown", id)) <= 1
          /\ Cardinality(TerminalPositions(id)) = IF Settled(id) THEN 1 ELSE 0
          /\ \A k \in Positions("prompt:shown", id) :
               \A t \in TerminalPositions(id) : k < t)
  /\ [][\A id \in Ids :
          (InQueue(id) /\ Settled(id)') =>
            /\ events' = Append(events, Canceled(id, events'[Len(events')].reason))
            /\ ~HasShown(id)']_vars

\* one request was shown and resolved, one was cancelled by its abort signal
\* or its timer while it waited in the queue and was never shown, and the
\* third is shown
C26_Witness ==
  \E a \in Ids : \E b \in Ids : \E c \in Ids :
    /\ HasShown(a) /\ Positions("prompt:resolved", a) # {}
    /\ ~HasShown(b) /\ Positions("prompt:canceled", b) # {} /\ Settled(b)
    /\ HasShown(c) /\ currentPrompt = c /\ ~Settled(c)
    /\ Len(events) = 4

\* ----------------------------------------------------------------- C27
\* C27: events are emitted in the order of the transitions.  A step that
\* settles the current request while another request is queued appends
\* exactly two events to the log: first the terminal event of the outgoing
\* request (prompt:resolved or prompt:canceled), then prompt:shown of the
\* head of the queue, which is the current prompt after the step.
C27_TerminalBeforeShown ==
  [][\A id \in Ids :
       (currentPrompt = id /\ Len(queue) > 0 /\ Settled(id)') =>
         /\ Len(events') = Len(events) + 2
         /\ SubSeq(events', 1, Len(events)) = events
         /\ events'[Len(events) + 1].id = id
         /\ events'[Len(events) + 1].type \in Terminal
         /\ events'[Len(events) + 2] = Shown(Head(queue))
         /\ currentPrompt' = Head(queue)]_vars

\* the current request was resolved while two others were queued: its
\* prompt:resolved is followed by prompt:shown of the first of them
C27_Witness ==
  /\ lastOp.op = "resolvePrompt" /\ lastOp.where = "current"
  /\ Len(events) = 3
  /\ events[2] = Resolved(lastOp.id)
  /\ events[3] = Shown(currentPrompt)
  /\ Len(queue) = 1

\* ----------------------------------------------------------------- C28
\* C28: every call that changes the current prompt, the queue, the display
\* registry or a display's current value (input, resolvePrompt, abort,
\* timeout, handleMissingRenderer, display, update, cancel) calls the
\* state-changed listeners at least once, and what a listener reads on the
\* last of these notifications (getCurrentPrompt(), getQueueLength(),
\* getActiveDisplays()) is the state the call ends in.
C28_NotifiedOfFinalState ==
  [][\/ /\ notes' # <<>>
        /\ notes'[Len(notes')] =
             Snapshot(currentPrompt', queue', activeDisplays', displayState')
     \/ /\ currentPrompt' = currentPrompt /\ queue' = queue
        /\ activeDisplays' = activeDisplays
        /\ \A d \in activeDisplays :
             displayState'[d].currentValue = displayState[d].currentValue]_vars

\* input() was called while a request was current, another was queued and a
\* display was active: its one notification shows the queue of two
C28_Witness ==
  /\ lastOp.op = "input" /\ ~lastOp.threw
  /\ currentPrompt # NoPrompt /\ Len(queue) = 2
  /\ activeDisplays # {}
  /\ notes = <<Snapshot(currentPrompt, queue, activeDisplays, displayState)>>

\* ----------------------------------------------------------------- C29
\* C29: re-entrant calls are safe.  With a listener that calls input() or
\* resolvePrompt() from inside an event or a state-changed notification of
\* input, resolvePrompt, abort, timeout or handleMissingRenderer, in every
\* reachable state: no promise's resolve has been invoked twice; every
\* submitted request is in exactly one place (current, once in the queue, or
\* settled) and no other id is anywhere; at most one request is shown and
\* unsettled, and it is the current one; and requests were shown in
\* submission order, the queue holding the waiting ones in that order.
Places(id) ==
  (IF currentPrompt = id THEN 1 ELSE 0)
  + Cardinality({i \in 1..Len(queue) : queue[i] = id})
  + (IF Settled(id) THEN 1 ELSE 0)

C29_ReentrantCallsSafe ==
  /\ \A id \in Ids : settleCount[id] <= 1
  /\ \A id \in Ids : Places(id) = IF Submitted(id) THEN 1 ELSE 0
  /\ {id \in Ids : HasShown(id) /\ ~Settled(id)} \subseteq {currentPrompt}
  /\ \A a \in Ids : \A b \in Ids :
       (a < b /\ HasShown(b)) =>
         \/ HasShown(a) /\ ShownPos(a) < ShownPos(b)
         \/ HasCanceled(a) /\ ~HasShown(a)
  /\ \A i \in 1..Len(queue) : \A j \in 1..Len(queue) :
       i < j => queue[i] < queue[j]

\* a listener that answers prompt:shown with resolvePrompt: the last input()
\* call returned with its own request already resolved, from inside
\* processQueue, and the active slot free again
C29_Witness ==
  /\ listens = [on |-> "prompt:shown", call |-> "resolvePrompt"]
  /\ reentered = MaxReentrant
  /\ lastOp.op = "input" /\ ~lastOp.threw
  /\ result[lastOp.id] = "v1"
  /\ currentPrompt = NoPrompt /\ queue = <<>>
  /\ events[Len(events)] = Resolved(lastOp.id)

\* ----------------------------------------------------------------- C30
\* C30: after every call each submitted request is in exactly one of three
\* places: the active slot, the queue (once), or settled; a request that was
\* not submitted is in none.  Hence getQueueLength() is the number of
\* submitted requests minus the settled ones, minus one if a request is
\* current.
C30_OnePlacePerRequest ==
  /\ \A id \in Ids : Places(id) = IF Submitted(id) THEN 1 ELSE 0
  /\ getQueueLength =
       (nextId - 1) - Cardinality({id \in Ids : Settled(id)})
                    - (IF currentPrompt # NoPrompt THEN 1 ELSE 0)

\* of three requests the first is current, the second was cancelled while it
\* waited in the queue, and the third is the only one queued
C30_Witness ==
  /\ nextId = MaxRequests + 1
  /\ currentPrompt = 1 /\ ~Settled(1)
  /\ Settled(2) /\ ~HasShown(2)
  /\ queue = <<3>> /\ getQueueLength = 1

\* ----------------------------------------------------------------- C31
\* C31: between calls an empty active slot implies an empty queue: after any
\* sequence of input, resolvePrompt, abort, timeout and handleMissingRenderer
\* calls no request waits in the queue while no request is current.
C31_FreeSlotMeansEmptyQueue ==
  currentPrompt = NoPrompt => queue = <<>>

\* the timer of the current request fired while two requests waited: the
\* first of them took the slot in that call and the other still waits
C31_Witness ==
  /\ lastOp.op = "timeout" /\ lastOp.where = "current"
  /\ Settled(lastOp.id)
  /\ currentPrompt # NoPrompt /\ currentPrompt # lastOp.id
  /\ Len(queue) = 1

\* ----------------------------------------------------------------- C32
\* a started sequence that its consumer has ended, with no cancel() on the
\* channel: only a started generator has yielded a value, and without cancel()
\* the loop does not end by itself
Ended(d) ==
  generator[d] = "completed" /\ ~displayState[d].isCancelled /\ got[d] # <<>>

\* C32: when the consumer ends the iteration of a started display sequence
\* (return/break) and cancel() has not been called, the channel leaves the
\* registry in that step and the state-changed listeners are notified;
\* afterwards update() on the handle delivers and buffers nothing and emits no
\* display:updated, and cancel() on the handle emits no display:canceled.
C32_ConsumerEndsIteration ==
  [][\A d \in DisplayIds :
       /\ \/ /\ d \notin activeDisplays' /\ generator'[d] = "completed"
             /\ notes' = <<Snapshot(currentPrompt, queue, activeDisplays \ {d},
                                   displayState)>>
          \/ ~ /\ generator[d] = "suspendedYield" /\ ~displayState[d].isCancelled
               /\ lastOp'.op = "return" /\ lastOp'.id = d
               /\ Return(d)
       /\ \/ UNCHANGED <<events, got, awaited, displayState, activeDisplays>>
          \/ ~ /\ Ended(d)
               /\ lastOp'.op \in {"update", "cancel"} /\ lastOp'.id = d
               /\ \/ \E value \in IterationValues : Update(d, value)
                  \/ Cancel(d)]_vars

\* the consumer obtained the initial value and stopped; the update() that
\* followed left no trace: nothing sent, no event after display:started
C32_Witness ==
  \E d \in DisplayIds :
    /\ lastOp.op = "update" /\ lastOp.id = d
    /\ Ended(d) /\ d \notin activeDisplays
    /\ got[d] = <<"i">> /\ sent[d] = <<"i">>
    /\ events = <<Started(d)>>
    /\ notes = <<>>

\* ----------------------------------------------------------------- C33
\* the events of one display channel, in the order they were emitted
DisplayEvents(d) ==
  SelectSeq(events, LAMBDA e : e.id = d /\ e.type \in {"display:started",
                                                      "display:updated",
                                                      "display:canceled"})

\* the last n elements of a sequence
Last(s, n) == SubSeq(s, Len(s) - n + 1, Len(s))

\* C33: the lifecycle events of every display channel follow one protocol.
\* In every reachable state the channel's events are display:started (exactly
\* one, first, present as soon as display() has returned), then one
\* display:updated per accepted update() with the values in call order, then
\* at most one display:canceled, which is last.  display:started is emitted
\* by display(); an update() on a registered channel emits display:updated
\* with its value and nothing else; a cancel() on a registered channel emits
\* display:canceled, and a cancel() on a channel that is no longer registered
\* emits nothing.
C33_DisplayEventProtocol ==
  /\ [](\A d \in DisplayIds :
          LET ev == DisplayEvents(d)
              n == Cardinality({k \in 1..Len(ev) : ev[k].type = "display:updated"})
          IN IF d >= nextDisplay THEN ev = <<>>
             ELSE /\ ev[1] = Started(d)
                  /\ Len(ev) \in {n + 1, n + 2}
                  /\ Len(sent[d]) \in {n, n + 1}
                  /\ \A k \in 1..n : ev[k + 1] = Updated(d, Last(sent[d], n)[k])
                  /\ Len(ev) = n + 2 => ev[n + 2] = DisplayCanceled(d))
  /\ [][\A d \in DisplayIds :
          /\ (lastOp'.op = "display" /\ lastOp'.id = d) =>
               events' = Append(events, Started(d))
          /\ (lastOp'.op = "update" /\ lastOp'.id = d /\ d \in activeDisplays) =>
               \E value \in IterationValues :
                 /\ Update(d, value)
                 /\ events' = Append(events, Updated(d, value))
          /\ (lastOp'.op = "cancel" /\ lastOp'.id = d) =>
               events' = IF d \in activeDisplays
                         THEN Append(events, DisplayCanceled(d)) ELSE events]_vars

\* a channel was started with an initial value, updated with two different
\* values and cancelled: four events, in that order
C33_Witness ==
  \E d \in DisplayIds :
    /\ lastOp.op = "cancel" /\ lastOp.id = d
    /\ sent[d] = <<"i", "b", "a">>
    /\ DisplayEvents(d) = <<Started(d), Updated(d, "b"), Updated(d, "a"),
                            DisplayCanceled(d)>>

C35_DrainIsIdempotent ==
  [][ProcessQueue =>
       LET once == processQueue(Manager) IN
       /\ processQueue(once) = once
       /\ (currentPrompt # NoPrompt \/ queue = <<>>) =>
            /\ once = Manager
            /\ UNCHANGED <<queue, currentPrompt, nextId, settleCount, result,
                           listener, timer, events, displayVars>>
            /\ notes' = <<>>]_vars

\* the drain step promoted the head of a queue of two and was run again: the
\* one prompt:shown is still the only event and the second run notified nobody
C35_Witness ==
  /\ lastOp.op = "processQueue" /\ lastOp.id = currentPrompt
  /\ currentPrompt # NoPrompt
  /\ events = <<Shown(currentPrompt)>>
  /\ notes = <<>>
  /\ Len(queue) = 1

\* ----------------------------------------------------------------- C36
\* C36: every resolvePrompt(id, v) call whose id is not the current prompt's
\* id, whether another request is current or the active slot is empty, prints
\* the stale-operation diagnostic (one console.warn), does not throw and
\* changes nothing else.
C36_StaleResolveIsLogged ==
  [][\A id \in Ids \cup {UnknownId} :
       \/ /\ console' = <<"warn">>
          /\ ~lastOp'.threw
          /\ UNCHANGED <<currentPrompt, queue, settleCount, result, events,
                         listener, timer, signal>>
       \/ ~ /\ id # currentPrompt
            /\ IsCall(id, {"resolvePrompt"})
            /\ \E v \in ResolveValues : ResolvePrompt(id, v)]_vars

\* ----------------------------------------------------------------- C37
\* C37: a request submitted with a signal that is already aborted is not
\* cancelled by that signal.  The input() call leaves it unsettled, current
\* if the manager was idle and at the tail of the queue otherwise; and as
\* long as it is unsettled (an unsettled request with an aborted signal is
\* one whose signal was aborted at submission, since the abort listener
\* settles its request), a step either leaves it unsettled or settles it by
\* resolvePrompt, by its timer or for a missing renderer, never with
\* prompt:canceled 'abort'.
C37_AbortedSignalDoesNotCancel ==
  [][\A id \in Ids :
       /\ (lastOp'.op = "input" /\ lastOp'.id = id /\ ~lastOp'.threw
           /\ id = nextId /\ signal'[id] = "aborted") =>
            /\ result'[id] = Pending /\ settleCount'[id] = 0
            /\ IF currentPrompt = NoPrompt /\ queue = <<>>
               THEN currentPrompt' = id /\ queue' = <<>>
               ELSE currentPrompt' = currentPrompt /\ queue' = Append(queue, id)
       /\ (signal[id] = "aborted" /\ Submitted(id) /\ ~Settled(id)) =>
            /\ ~Abort(id)
            /\ \/ ~Settled(id)'
               \/ /\ lastOp'.op \in {"resolvePrompt", "timeout",
                                     "handleMissingRenderer"}
                  /\ lastOp'.id = id
                  /\ Canceled(id, "abort") \notin
                       {events'[k] : k \in 1..Len(events')}]_vars

\* a request submitted with an aborted signal waited in the queue, became
\* current and was resolved with a value
C37_Witness ==
  \E id \in Ids :
    /\ signal[id] = "aborted"
    /\ lastOp.op = "resolvePrompt" /\ lastOp.id = id /\ lastOp.where = "current"
    /\ result[id] = "v1"
    /\ HasShown(id) /\ ShownPos(id) > 1
    /\ ~HasCanceled(id)

\* ----------------------------------------------------------------- C38
\* C38: a cancel from the presentation layer is reported as prompt:resolved.
\* onCancel for the current prompt settles it with null and emits
\* prompt:resolved, not prompt:canceled, for it; and in every reachable state
\* each prompt:canceled event carries the reason abort, timeout or
\* missing-renderer, never 'manual'.  (That a promise settled with null need
\* not have a prompt:canceled event is the state of the witness.)
C38_ManualCancelIsResolved ==
  /\ [][\A id \in Ids :
          \/ /\ result'[id] = Null
             /\ Len(events') > Len(events)
             /\ events'[Len(events) + 1] = Resolved(id)
             /\ ~HasCanceled(id)'
          \/ ~ /\ currentPrompt = id
               /\ IsCall(id, {"resolvePrompt"})
               /\ OnCancel(id)]_vars
  /\ [](\A k \in 1..Len(events) :
          events[k].type = "prompt:canceled" =>
            events[k].reason \in {"abort", "timeout", "missing-renderer"})

\* one request was cancelled by its timer and the next by onCancel: both
\* promises hold null, only the first has a prompt:canceled event
C38_Witness ==
  \E a \in Ids : \E b \in Ids :
    /\ result[a] = Null /\ HasCanceled(a)
    /\ result[b] = Null /\ ~HasCanceled(b)
    /\ Positions("prompt:resolved", b) # {}
    /\ lastOp.op = "resolvePrompt" /\ lastOp.id = b /\ lastOp.where = "current"

\* ----------------------------------------------------------------- C39
\* C39: a call that settles the current request (resolvePrompt, abort,
\* timeout or handleMissingRenderer) while the queue is not empty notifies the
\* state-changed listeners exactly twice: first in the intermediate state
\* where getCurrentPrompt() is null and getQueueLength() is still the length
\* of the queue before the call (greater than 0), then after the head of the
\* queue has become the current prompt.
C39_NotifiedInIntermediateState ==
  [][\A id \in Ids :
       (currentPrompt = id /\ Len(queue) > 0 /\ Settled(id)') =>
         /\ lastOp'.op \in {"resolvePrompt", "abort", "timeout",
                            "handleMissingRenderer"}
         /\ notes' = <<Snapshot(NoPrompt, queue, activeDisplays, displayState),
                       Snapshot(Head(queue), Tail(queue), activeDisplays,
                                displayState)>>
         /\ notes'[1].current = NoPrompt /\ notes'[1].queueLength > 0
         /\ notes'[2].current = currentPrompt']_vars

\* the current request had no renderer while two others waited: the
\* listeners saw no current prompt with a queue of two, then the next prompt
\* with a queue of one
C39_Witness ==
  /\ lastOp.op = "handleMissingRenderer" /\ lastOp.where = "current"
  /\ Len(notes) = 2
  /\ notes[1].current = NoPrompt /\ notes[1].queueLength = 2
  /\ notes[2].current = currentPrompt /\ notes[2].queueLength = 1
  /\ currentPrompt # NoPrompt /\ Len(queue) = 1
====
